---- MODULE Spec2Model ----
(***************************************************************************)
(* The hebe_scraping crawl controllers as state machines.                  *)
(*                                                                         *)
(* The asynchronous controller (async_scraping.py, and its instrumented    *)
(* twin async_scrpaing_with_timing.py, which has the same control          *)
(* structure): scrape_products drives scrape_page page by page; each page  *)
(* fans out one process_product task per tile and gathers them.  The       *)
(* network is the environment: every response is drawn from a small set    *)
(* when the request resolves.                                              *)
(***************************************************************************)
EXTENDS Integers, Sequences, FiniteSets, TLC

\* ------------------------------------------------------------- bounds
\* Pages 0..LastPage of the catalogue may carry tiles; a request past
\* LastPage finds no tiles (or fails).
LastPage == 1
\* The most tiles a listing page carries.
MaxTiles == 2
\* The largest configured max_pages.
MaxCap == 2
\* The last page index the synchronous crawl is followed to (against a
\* server that wraps around it can go on for ever).
MaxSyncPage == 2
MaxWrapPage == 4
MaxElapsed == 1

\* ---------------------------------------------------- program constants
\* aiohttp.TCPConnector(limit=10)
ConnLimit == 10

LoadingError == "Loading error"
ErrorLoading == "Error loading"
NoIngredients == "No ingredients information"
NoPhoto == "No photo available"
NoName == "No name"
NoPrice == "No price"

\* Python's None and a present value, as sequences of length 0 and 1.
None == <<>>
Some(x) == <<x>>

\* ------------------------------------------------- the server's answers
VARIABLE
    server         \* the site as it answers this run: which pages carry
                   \* tiles, how many and of what kinds, what the detail
                   \* requests resolve to, whether pagination wraps around

ItemName(p, i) == "item" \o ToString(p) \o "_" \o ToString(i)
ItemPrice(p, i) == ToString(10 * (p + 1) + i) \o ".99"
ItemHref(p, i) == "p" \o ToString(p) \o "_" \o ToString(i)
ItemId(p, i) == "id" \o ToString(p) \o "_" \o ToString(i)

\* A tile whose data-product-gtm attribute is a mapping with the item_id,
\* item_name and price keys, and which has its a.product-tile__image anchor.
FullTile(p, i) ==
    [gtm |-> "mapping", item_id |-> Some(ItemId(p, i)),
     item_name |-> Some(ItemName(p, i)), price |-> Some(ItemPrice(p, i)),
     anchor |-> Some(ItemHref(p, i))]

\* The kinds of tile: whole; with an empty mapping; without the anchor; with
\* an attribute that is no literal; without the attribute.
TileKinds == {"full", "empty_mapping", "no_anchor", "malformed", "absent"}

\* The i-th tile of page p, of the given kind.
TileOf(kind, p, i) ==
    CASE kind = "full" -> FullTile(p, i)
      [] kind = "empty_mapping" ->
           [FullTile(p, i) EXCEPT !.item_id = None, !.item_name = None,
                                  !.price = None]
      [] kind = "no_anchor" -> [FullTile(p, i) EXCEPT !.anchor = None]
      [] kind = "malformed" ->
           [FullTile(p, i) EXCEPT !.gtm = "malformed", !.item_id = None,
                                  !.item_name = None, !.price = None]
      [] OTHER ->
           [FullTile(p, i) EXCEPT !.gtm = "absent", !.item_id = None,
                                  !.item_name = None, !.price = None]

\* The tile lists of n tiles page p can carry.
TileLists(p, n) ==
    { [i \in 1..n |-> TileOf(k[i], p, i)] : k \in [1..n -> server.kinds] }

NoMarkup ==
    [ingredients_tag |-> FALSE, ingredients_content |-> None,
     photo_container |-> FALSE, img_tag |-> FALSE, data_srcset |-> None]

FullMarkup ==
    [ingredients_tag |-> TRUE, ingredients_content |-> Some("Aqua, Glycerin"),
     photo_container |-> TRUE, img_tag |-> TRUE,
     data_srcset |-> Some("https://img/1.jpg 1x")]

\* Detail pages: the ingredients container and the photo carousel, each
\* whole, partial or missing.
\* An ingredients text that runs over two lines in the page, the second one
\* indented.
TwoLineText == "Aqua,\n Glycerin"

Markups ==
    { FullMarkup,
      [FullMarkup EXCEPT !.ingredients_content = None, !.data_srcset = None],
      [FullMarkup EXCEPT !.ingredients_tag = FALSE, !.ingredients_content = None],
      [FullMarkup EXCEPT !.ingredients_content = Some(TwoLineText)] }

OkResponse(m) ==
    [raises |-> FALSE, status |-> 200, readable |-> TRUE, markup |-> m]

\* What a detail request can resolve to: the request raises (connection
\* error, timeout), or a response arrives with a status, whose body can be
\* read or not.
DetailResponses ==
    { [raises |-> TRUE, status |-> 0, readable |-> FALSE, markup |-> NoMarkup],
      [raises |-> FALSE, status |-> 404, readable |-> TRUE, markup |-> NoMarkup],
      [raises |-> FALSE, status |-> 200, readable |-> FALSE, markup |-> NoMarkup] }
    \cup { OkResponse(m) : m \in Markups }

\* What the request for listing page p resolves to.
PageResponses(p) ==
    { [raises |-> TRUE, status |-> 0, readable |-> FALSE, tiles |-> <<>>],
      [raises |-> FALSE, status |-> 500, readable |-> TRUE, tiles |-> <<>>],
      [raises |-> FALSE, status |-> 200, readable |-> FALSE, tiles |-> <<>>],
      [raises |-> FALSE, status |-> 200, readable |-> TRUE, tiles |-> <<>>] }
    \cup { [raises |-> FALSE, status |-> 404, readable |-> TRUE,
             tiles |-> <<FullTile(p, 1)>>] }
    \cup IF p > server.last_page THEN {}
         ELSE { [raises |-> FALSE, status |-> 200, readable |-> TRUE, tiles |-> t] :
                  t \in UNION { TileLists(p, n) : n \in server.sizes } }

\* A site of one listing page, with tiles of every kind and detail requests
\* that resolve in every way.
DetailServer ==
    [last_page |-> 0, sizes |-> 1..MaxTiles, kinds |-> TileKinds,
     details |-> DetailResponses, wraps |-> FALSE]

\* A site of several listing pages, whose tiles are whole and whose detail
\* pages are whole; past its pages it may wrap around.
CatalogueServer ==
    [last_page |-> LastPage, sizes |-> 1..MaxTiles, kinds |-> {"full"},
     details |-> {r \in DetailResponses : r.raises} \cup {OkResponse(FullMarkup)},
     wraps |-> TRUE]

\* A listing page with more tiles than the connector has connections.
BigPageTiles == ConnLimit + 1

BigPageServer ==
    [last_page |-> 0, sizes |-> {BigPageTiles}, kinds |-> {"full"},
     details |-> {OkResponse(FullMarkup)}, wraps |-> FALSE]

\* ------------------------------------------------------- pure functions
Product(name, price, ingredients, photo_url) ==
    [name |-> name, price |-> price,
     ingredients |-> ingredients, photo_url |-> photo_url]

\* The ingredients and the photo URL of a parsed detail page: each lookup
\* takes the first match and falls back to its sentinel.
DetailFields(m) ==
    [ingredients |->
         IF m.ingredients_tag
         THEN IF m.ingredients_content # None
              THEN m.ingredients_content[1] ELSE NoIngredients
         ELSE NoIngredients,
     photo_url |->
         IF m.photo_container /\ m.img_tag /\ m.data_srcset # None
         THEN m.data_srcset[1] ELSE NoPhoto]

\* The lines of a text, split at its line breaks.
Lines(s) == IF s = TwoLineText THEN <<"Aqua,", " Glycerin">> ELSE <<s>>

RECURSIVE Join(_, _)
\* sep.join(parts)
Join(parts, sep) ==
    IF Len(parts) = 1 THEN parts[1]
    ELSE parts[1] \o sep \o Join(Tail(parts), sep)

\* ingredients.replace('\n', ' ')
ReplaceNewlines(s) == Join(Lines(s), " ")

\* The detail fields as the asynchronous extract_product_details computes
\* them: the ingredients text has its line breaks replaced by spaces.
AsyncDetailFields(m) ==
    [ingredients |->
         IF m.ingredients_tag
         THEN ReplaceNewlines(IF m.ingredients_content # None
                              THEN m.ingredients_content[1] ELSE NoIngredients)
         ELSE NoIngredients,
     photo_url |-> DetailFields(m).photo_url]

\* The body of extract_product_details' try block: what it returns, or that
\* it raised.
ExtractDetailsBody(r) ==
    IF r.raises
    THEN [raised |-> TRUE, ingredients |-> "", photo_url |-> ""]
    ELSE IF r.status # 200
    THEN [raised |-> FALSE, ingredients |-> LoadingError, photo_url |-> LoadingError]
    ELSE IF ~r.readable
    THEN [raised |-> TRUE, ingredients |-> "", photo_url |-> ""]
    ELSE [raised |-> FALSE,
          ingredients |-> AsyncDetailFields(r.markup).ingredients,
          photo_url |-> AsyncDetailFields(r.markup).photo_url]

\* extract_product_details' except clause.
NoDetailsExcept(b) == b

DetailsExceptPartial(b) ==
    IF b.raised
    THEN [raised |-> FALSE, ingredients |-> ErrorLoading, photo_url |-> NoPhoto]
    ELSE b

DetailsExceptWrongSentinel(b) ==
    IF b.raised
    THEN [raised |-> FALSE, ingredients |-> LoadingError, photo_url |-> LoadingError]
    ELSE b

DetailsExcept(b) ==
    IF b.raised
    THEN [raised |-> FALSE, ingredients |-> ErrorLoading, photo_url |-> ErrorLoading]
    ELSE b

extract_product_details(r) == DetailsExcept(ExtractDetailsBody(r))

\* process_product up to its await: it returns None, raises, or goes on to
\* the detail request with the tile's name, price and link.
ListingFields(tile) ==
    IF tile.gtm = "absent"
    THEN [out |-> "return_none", name |-> "", price |-> "", url |-> ""]
    ELSE IF tile.gtm = "malformed"
    THEN [out |-> "raise", name |-> "", price |-> "", url |-> ""]
    ELSE IF tile.anchor = None
    THEN [out |-> "raise", name |-> "", price |-> "", url |-> ""]
    ELSE [out |-> "await",
          name |-> IF tile.item_name # None THEN tile.item_name[1] ELSE NoName,
          price |-> IF tile.price # None THEN tile.price[1] ELSE NoPrice,
          url |-> "https://www.hebe.pl/" \o tile.anchor[1]]

\* process_product's except clause: a task that raised returns None.
NoProductExcept(t) == t

ProductExcept(t) ==
    IF t.raised THEN [t EXCEPT !.raised = FALSE, !.res = None] ELSE t

\* ---------------------------------------------- the asynchronous crawl
VARIABLES
    max_pages,     \* scrape_products' argument: None or Some(cap)
    pc,            \* where scrape_products is: "start" (called), "loop",
                   \* "page_get" (awaiting the page response), "gather"
                   \* (awaiting the page's tasks), "sleep", "done" (the loop
                   \* is left), "raised" (an exception left the loop)
    page,          \* scrape_products' page
    all_products,  \* scrape_products' all_products
    tasks,         \* the process_product tasks of the page last answered
    first_done,    \* the task of that page that finished first (0: none yet)
    stopped,       \* why the loop was left: "", "cap_reached", "no_more_products"
    requested,     \* history: the page indices requested, in order
    page_results,  \* history: what scrape_page returned, per requested page
    page_outcomes  \* history: how each page request resolved

\* The synchronous crawl (scraping_basic.py).
VARIABLES
    sync_pc,           \* "off", "loop" (about to get a page), "tiles" (in the
                       \* for loop), "done" (returned), "crashed" (an
                       \* exception left scrape_products)
    sync_page,         \* scrape_products' page
    first_product_id,  \* None while it is falsy ('' or None)
    products_list,     \* scrape_products' products_list
    product_tiles,     \* the tiles of the page being walked
    tile_idx,          \* the for loop's position in product_tiles
    served0,           \* the server's memory: the tiles it served as page 0
    sync_exc,          \* history: the statement whose exception left
                       \* scrape_products ("": none)
    sync_reqs          \* history: the URLs requested, in order

\* The run around the crawl (main, or the __main__ block).
VARIABLES
    session,   \* the aiohttp.ClientSession: how often it was acquired and
               \* released
    main_pc,   \* "run" (the crawl is under way), "returned" (scrape_products
               \* has returned to main), "saved", "failed" (main's except
               \* clause ran), "aborted" (the exception left the script)
    csv_file   \* products.csv: None until it is written, then Some(lines)

async_vars == <<max_pages, pc, page, all_products, tasks, first_done, stopped,
                requested, page_results, page_outcomes>>

sync_vars == <<sync_pc, sync_page, first_product_id, products_list,
               product_tiles, tile_idx, served0, sync_exc, sync_reqs>>

\* The instrumented crawl (async_scrpaing_with_timing.py), run beside the
\* plain one against the same answers.
VARIABLE
    timed      \* its scrape_products: pc, page, all_products, tasks,
               \* first_done, stopped, requested, total_page_time as in the
               \* source, returned (it has returned), and for the comparison
               \* obs_before (what it showed before its last step) and input
               \* (the answer that step consumed)

main_vars == <<session, main_pc, csv_file>>

plain_vars == <<server, async_vars, sync_vars, main_vars>>

vars == <<server, async_vars, sync_vars, main_vars, timed>>

\* What a crawl shows of its control: where it is, the page requests it
\* issued, why it stopped, the Products it accumulated (name, price and photo
\* URL) and, per task of the current page, its state and its detail requests.
Obs(pc_, page_, stopped_, requested_, returned_, all_, tasks_) ==
    [pc |-> pc_, page |-> page_, stopped |-> stopped_,
     requested |-> requested_, returned |-> returned_,
     products |-> [k \in 1..Len(all_) |->
                     [name |-> all_[k].name, price |-> all_[k].price,
                      photo_url |-> all_[k].photo_url]],
     tasks |-> [i \in 1..Len(tasks_) |->
                  [tile |-> tasks_[i].tile, st |-> tasks_[i].st,
                   reqs |-> tasks_[i].reqs, yielded |-> tasks_[i].res # None]]]

NoInput ==
    [kind |-> "", i |-> 0,
     page_r |-> [raises |-> TRUE, status |-> 0, readable |-> FALSE, tiles |-> <<>>],
     detail_r |-> [raises |-> TRUE, status |-> 0, readable |-> FALSE,
                   markup |-> NoMarkup]]

\* The instrumented crawl before it is called.
TimedOff ==
    [pc |-> "off", page |-> 0, all_products |-> <<>>, tasks |-> <<>>,
     first_done |-> 0, stopped |-> "", requested |-> <<>>,
     total_page_time |-> 0, returned |-> FALSE,
     obs_before |-> Obs("off", 0, "", <<>>, FALSE, <<>>, <<>>),
     input |-> NoInput]

NoOutcome == [raises |-> FALSE, status |-> 0, readable |-> FALSE]

\* A process_product coroutine wrapped in a task by asyncio.gather.
NewTask(tile) ==
    [tile |-> tile, st |-> "pending", reqs |-> 0, outcome |-> NoOutcome,
     raised |-> FALSE, res |-> None]

\* The requests that hold a connection of the session's connector.
InFlight ==
    (IF pc = "page_get" THEN 1 ELSE 0)
    + Cardinality({ i \in 1..Len(tasks) : tasks[i].st = "inflight" })

\* TCPConnector(limit=10): a request gets a connection only while fewer than
\* the limit are held; otherwise it waits.
ConnUnlimited == TRUE

ConnAvailable == InFlight < ConnLimit

\* The loop's page-limit test.
CapHitOffByOne(mp, p) == mp # None /\ p > mp[1]

CapIgnored(mp, p) == FALSE

CapHitWithoutCap(mp, p) == mp = None \/ p >= mp[1]

CapHit(mp, p) == mp # None /\ p >= mp[1]

\* await asyncio.gather(*tasks) resumes when every task has finished, or as
\* soon as one has raised.
GatherFirstCompleted(ts) == \E i \in 1..Len(ts) : ts[i].st = "done"

GatherDone(ts) ==
    \/ \A i \in 1..Len(ts) : ts[i].st = "done"
    \/ \E i \in 1..Len(ts) : ts[i].raised

RECURSIVE NotNone(_)
\* [p for p in products if p is not None]
NotNone(rs) ==
    IF rs = <<>> THEN <<>> ELSE Head(rs) \o NotNone(Tail(rs))

\* The list gather returns: the tasks' results in the order of the tasks.
GatherCompletionOrder(ts, first) ==
    IF first = 0 THEN [i \in 1..Len(ts) |-> ts[i].res]
    ELSE <<ts[first].res>>
         \o [i \in 1..(first - 1) |-> ts[i].res]
         \o [i \in 1..(Len(ts) - first) |-> ts[first + i].res]

Gather(ts, first) == [i \in 1..Len(ts) |-> ts[i].res]

\* What scrape_page returns once gather has resumed.
ScrapePageReturn(ts, first) ==
    IF \E i \in 1..Len(ts) : ts[i].raised THEN <<>>
    ELSE NotNone(Gather(ts, first))

\* all_products.extend(products)
ExtendReplace(all, products) == products

ExtendAtFront(all, products) == products \o all

Extend(all, products) == all \o products

\* The tiles scrape_page goes on with: none when the request raised, the
\* status is not 200 or the body cannot be read (the except clause and the
\* early return both give []).
product_tiles_any_status(r) ==
    IF r.raises \/ ~r.readable THEN <<>> ELSE r.tiles

product_tiles_of(r) ==
    IF r.raises \/ r.status # 200 \/ ~r.readable THEN <<>> ELSE r.tiles

Init ==
    /\ server \in {DetailServer, CatalogueServer}
    /\ max_pages \in {None} \cup { Some(c) : c \in 0..MaxCap }
    /\ pc = "start"
    /\ page = 0
    /\ all_products = <<>>
    /\ tasks = <<>>
    /\ first_done = 0
    /\ stopped = ""
    /\ requested = <<>>
    /\ page_results = <<>>
    /\ sync_pc = "off"
    /\ sync_page = 0
    /\ first_product_id = None
    /\ products_list = <<>>
    /\ product_tiles = <<>>
    /\ tile_idx = 0
    /\ served0 = <<>>
    /\ page_outcomes = <<>>
    /\ sync_exc = ""
    /\ sync_reqs = <<>>
    /\ session = [acquired |-> 0, released |-> 0]
    /\ main_pc = "run"
    /\ csv_file = None
    /\ timed = TimedOff

\* The page limit is reached: break.
CapReached ==
    /\ pc = "loop"
    /\ CapHit(max_pages, page)
    /\ pc' = "done"
    /\ stopped' = "cap_reached"
    /\ UNCHANGED <<max_pages, page, all_products, tasks, first_done,
                   requested, page_results>>
    /\ UNCHANGED page_outcomes
    /\ UNCHANGED sync_vars
    /\ UNCHANGED main_vars
    /\ UNCHANGED server
    /\ UNCHANGED timed

\* scrape_page(page) is called and issues its GET.
RequestPage ==
    /\ pc = "loop"
    /\ ~CapHit(max_pages, page)
    /\ ConnAvailable
    /\ pc' = "page_get"
    /\ requested' = Append(requested, page)
    /\ UNCHANGED <<max_pages, page, all_products, tasks, first_done,
                   stopped, page_results>>
    /\ UNCHANGED page_outcomes
    /\ UNCHANGED sync_vars
    /\ UNCHANGED main_vars
    /\ UNCHANGED server
    /\ UNCHANGED timed

\* The page request resolves.  Without tiles (an exception, a status other
\* than 200, no product-tile in the markup) scrape_page returns [] and the
\* loop breaks; with tiles, one task per tile is created and gathered.
PageResponse(r) ==
    /\ pc = "page_get"
    /\ page_outcomes' = Append(page_outcomes,
                               [raises |-> r.raises, status |-> r.status,
                                readable |-> r.readable, ntiles |-> Len(r.tiles)])
    /\ LET tiles == product_tiles_of(r)
       IN IF tiles = <<>>
          THEN /\ pc' = "done"
               /\ stopped' = "no_more_products"
               /\ page_results' = Append(page_results, <<>>)
               /\ tasks' = <<>>
               /\ first_done' = 0
          ELSE /\ pc' = "gather"
               /\ tasks' = [i \in 1..Len(tiles) |-> NewTask(tiles[i])]
               /\ first_done' = 0
               /\ UNCHANGED <<stopped, page_results>>
    /\ UNCHANGED <<max_pages, page, all_products, requested>>
    /\ UNCHANGED sync_vars
    /\ UNCHANGED main_vars
    /\ UNCHANGED server
    /\ UNCHANGED timed

\* Task i runs process_product up to its await: it finishes at once with
\* None, or issues the detail request when the connector has a connection.
StartTask(i) ==
    /\ tasks[i].st = "pending"
    /\ LET f == ListingFields(tasks[i].tile)
       IN IF f.out = "await"
          THEN /\ ConnAvailable
               /\ tasks' = [tasks EXCEPT ![i].st = "inflight", ![i].reqs = @ + 1]
               /\ UNCHANGED first_done
          ELSE /\ tasks' = [tasks EXCEPT ![i] =
                              ProductExcept([@ EXCEPT !.st = "done",
                                                      !.raised = (f.out = "raise")])]
               /\ first_done' = IF first_done = 0 THEN i ELSE first_done
    /\ UNCHANGED <<max_pages, pc, page, all_products, stopped,
                   requested, page_results>>
    /\ UNCHANGED page_outcomes
    /\ UNCHANGED sync_vars
    /\ UNCHANGED main_vars
    /\ UNCHANGED server
    /\ UNCHANGED timed

\* Task i's detail request resolves with r and process_product finishes.
DetailResponse(i, r) ==
    /\ tasks[i].st = "inflight"
    /\ LET f == ListingFields(tasks[i].tile)
           d == extract_product_details(r)
           t == [tasks[i] EXCEPT
                   !.st = "done",
                   !.outcome = [raises |-> r.raises, status |-> r.status,
                                readable |-> r.readable],
                   !.raised = d.raised,
                   !.res = IF d.raised THEN None
                           ELSE Some(Product(f.name, f.price,
                                             d.ingredients, d.photo_url))]
       IN tasks' = [tasks EXCEPT ![i] = ProductExcept(t)]
    /\ first_done' = IF first_done = 0 THEN i ELSE first_done
    /\ UNCHANGED <<max_pages, pc, page, all_products, stopped,
                   requested, page_results>>
    /\ UNCHANGED page_outcomes
    /\ UNCHANGED sync_vars
    /\ UNCHANGED main_vars
    /\ UNCHANGED server
    /\ UNCHANGED timed

\* gather resumes, scrape_page returns, and the loop breaks on an empty
\* result or extends all_products and moves to the next page.
GatherReturn ==
    /\ pc = "gather"
    /\ GatherDone(tasks)
    /\ LET products == ScrapePageReturn(tasks, first_done)
       IN /\ page_results' = Append(page_results, products)
          /\ IF products = <<>>
             THEN /\ pc' = "done"
                  /\ stopped' = "no_more_products"
                  /\ UNCHANGED <<page, all_products>>
             ELSE /\ pc' = "sleep"
                  /\ all_products' = Extend(all_products, products)
                  /\ page' = page + 1
                  /\ UNCHANGED stopped
    /\ UNCHANGED <<max_pages, tasks, first_done, requested>>
    /\ UNCHANGED page_outcomes
    /\ UNCHANGED sync_vars
    /\ UNCHANGED main_vars
    /\ UNCHANGED server
    /\ UNCHANGED timed

\* await asyncio.sleep(0.2) is over.
Sleep ==
    /\ pc = "sleep"
    /\ pc' = "loop"
    /\ UNCHANGED <<max_pages, page, all_products, tasks, first_done,
                   stopped, requested, page_results>>
    /\ UNCHANGED page_outcomes
    /\ UNCHANGED sync_vars
    /\ UNCHANGED main_vars
    /\ UNCHANGED server
    /\ UNCHANGED timed

\* async with aiohttp.ClientSession(...) as session: the session is
\* acquired, and the loop is entered with all_products = [] and page = 0.
OpenSession ==
    /\ pc = "start"
    /\ pc' = "loop"
    /\ session' = [session EXCEPT !.acquired = @ + 1]
    /\ UNCHANGED <<max_pages, page, all_products, tasks, first_done,
                   stopped, requested, page_results, page_outcomes>>
    /\ UNCHANGED <<main_pc, csv_file>>
    /\ UNCHANGED sync_vars
    /\ UNCHANGED server
    /\ UNCHANGED timed

\* Leaving the async with block releases the session, however it is left.
NoRelease(s) == s

ClientSessionExit(s) == [s EXCEPT !.released = @ + 1]

\* return all_products: the async with block is left and main has the
\* result.
Return ==
    /\ pc = "done"
    /\ main_pc = "run"
    /\ session' = ClientSessionExit(session)
    /\ main_pc' = "returned"
    /\ UNCHANGED csv_file
    /\ UNCHANGED async_vars
    /\ UNCHANGED sync_vars
    /\ UNCHANGED server
    /\ UNCHANGED timed

\* The header line of the file.
Header(delim) ==
    "Name" \o delim \o "Price" \o delim \o "Ingredients" \o delim \o "Photo URL"

\* The lines one file.write of a product adds to the file: the four fields
\* joined by the delimiter, as they are, and a line break.
ProductLines(p, delim) ==
    LET il == Lines(p.ingredients)
        n == Len(il)
    IN IF n = 1
       THEN <<p.name \o delim \o p.price \o delim \o il[1] \o delim \o p.photo_url>>
       ELSE <<p.name \o delim \o p.price \o delim \o il[1]>>
            \o SubSeq(il, 2, n - 1)
            \o <<il[n] \o delim \o p.photo_url>>

RECURSIVE WriteProducts(_, _)
WriteProducts(products, delim) ==
    IF products = <<>> THEN <<>>
    ELSE ProductLines(Head(products), delim) \o WriteProducts(Tail(products), delim)

\* The lines of the file save_products_to_csv writes.
save_products_to_csv(products, delim) ==
    <<Header(delim)>> \o WriteProducts(products, delim)

\* main: save_products_to_csv(products).
SaveCsv ==
    /\ pc = "done"
    /\ main_pc = "returned"
    /\ csv_file' = Some(save_products_to_csv(all_products, ";"))
    /\ main_pc' = "saved"
    /\ UNCHANGED session
    /\ UNCHANGED async_vars
    /\ UNCHANGED sync_vars
    /\ UNCHANGED server
    /\ UNCHANGED timed

Next ==
    \/ OpenSession
    \/ CapReached
    \/ RequestPage
    \/ pc = "page_get" /\ \E r \in PageResponses(page) : PageResponse(r)
    \/ \E i \in 1..Len(tasks) : StartTask(i)
    \/ \E i \in 1..Len(tasks) :
          tasks[i].st = "inflight" /\ \E r \in server.details : DetailResponse(i, r)
    \/ GatherReturn
    \/ Sleep
    \/ Return
    \/ SaveCsv

Spec == Init /\ [][Next]_vars

\* The event loop runs whatever is ready and every request issued resolves
\* (with a response, an exception or the session's 30 s timeout).
SpecFair == Init /\ [][Next]_vars /\ WF_vars(Next)

\* ------------------------------------------------ the synchronous crawl
\* What a requests.get of the synchronous crawl resolves to: it raises, or
\* a response with a status and a text arrives.
SyncDetailResponses == { r \in server.details : r.raises \/ r.readable }

\* Listing page p as the server answers the synchronous crawl; past page 0
\* it may also wrap around and serve page 0's tiles again.
SyncPageResponses(p) ==
    { r \in PageResponses(p) : r.raises \/ r.readable }
    \cup IF server.wraps /\ p > 0 /\ served0 # <<>>
         THEN { [raises |-> FALSE, status |-> 200, readable |-> TRUE,
                 tiles |-> served0] }
         ELSE {}

InitSync ==
    /\ server \in {DetailServer, CatalogueServer}
    /\ max_pages = None
    /\ pc = "off"
    /\ page = 0
    /\ all_products = <<>>
    /\ tasks = <<>>
    /\ first_done = 0
    /\ stopped = ""
    /\ requested = <<>>
    /\ page_results = <<>>
    /\ sync_pc = "loop"
    /\ sync_page = 0
    /\ first_product_id = None
    /\ products_list = <<>>
    /\ product_tiles = <<>>
    /\ tile_idx = 0
    /\ served0 = <<>>
    /\ page_outcomes = <<>>
    /\ sync_exc = ""
    /\ sync_reqs = <<>>
    /\ session = [acquired |-> 0, released |-> 0]
    /\ main_pc = "run"
    /\ csv_file = None
    /\ timed = TimedOff

\* The URLs of the listing pages and of the detail pages.
PageUrl(p) ==
    "https://www.hebe.pl/pielegnacja-wlosow-szampony/?start=" \o ToString(p * 24)

ProductUrl(tile) == "https://www.hebe.pl/" \o tile.anchor[1]

\* The top of the while loop: the page is requested and answered.  An
\* exception leaves scrape_products; a status other than 200 or a page
\* without tiles breaks the loop; otherwise the for loop starts.
\* Up to page MaxSyncPage the requests are recorded and the pages counted
\* (counted); past it the crawl goes on the same way but its page index and
\* its request history are no longer told apart.
SyncFetch(r, counted) ==
    /\ sync_pc = "loop"
    /\ sync_reqs' = IF counted THEN Append(sync_reqs, PageUrl(sync_page))
                               ELSE sync_reqs
    /\ IF r.raises
       THEN /\ sync_pc' = "crashed"
            /\ sync_exc' = "page_request"
            /\ UNCHANGED <<product_tiles, tile_idx, served0>>
       ELSE IF r.status # 200 \/ r.tiles = <<>>
       THEN /\ sync_pc' = "done"
            /\ UNCHANGED <<product_tiles, tile_idx, served0, sync_exc>>
       ELSE /\ sync_pc' = "tiles"
            /\ product_tiles' = r.tiles
            /\ tile_idx' = 1
            /\ served0' = IF sync_page = 0 THEN r.tiles ELSE served0
            /\ UNCHANGED sync_exc
    /\ UNCHANGED <<sync_page, first_product_id, products_list>>
    /\ UNCHANGED async_vars
    /\ UNCHANGED main_vars
    /\ UNCHANGED server
    /\ UNCHANGED timed

SyncFetchPage(r) == sync_page <= MaxSyncPage /\ SyncFetch(r, TRUE)

\* The repeated-first-item test of the for loop.
NeverRepeated(first, current) == FALSE

FullCycle(first, current) == first # None /\ current = first

\* One pass of the for loop, for the tile at tile_idx; r is what the detail
\* request resolves to when the pass gets that far.  After the last tile
\* page is incremented and the while loop goes round.
SyncPass(r, counted) ==
    /\ sync_pc = "tiles"
    /\ LET tile == product_tiles[tile_idx]
           current_product_id == tile.item_id
           first == IF first_product_id = None
                    THEN current_product_id ELSE first_product_id
           last == tile_idx = Len(product_tiles)
           fields == IF r.status = 200 THEN DetailFields(r.markup)
                     ELSE [ingredients |-> LoadingError,
                           photo_url |-> LoadingError]
           product ==
               Product(IF tile.item_name # None THEN tile.item_name[1] ELSE NoName,
                       IF tile.price # None THEN tile.price[1] ELSE NoPrice,
                       fields.ingredients, fields.photo_url)
           requests == IF counted THEN Append(sync_reqs, ProductUrl(tile))
                                  ELSE sync_reqs
           continue ==
               /\ sync_pc' = IF last THEN "loop" ELSE "tiles"
               /\ tile_idx' = IF last THEN tile_idx ELSE tile_idx + 1
               /\ sync_page' = IF last /\ counted THEN sync_page + 1 ELSE sync_page
       IN IF tile.gtm = "absent"
          THEN /\ continue
               /\ UNCHANGED <<first_product_id, products_list, sync_exc, sync_reqs>>
          ELSE IF tile.gtm = "malformed"
          THEN /\ sync_pc' = "crashed"
               /\ sync_exc' = "literal_eval"
               /\ UNCHANGED <<sync_page, first_product_id, products_list,
                              tile_idx, sync_reqs>>
          ELSE IF FullCycle(first_product_id, current_product_id)
          THEN /\ sync_pc' = "done"
               /\ UNCHANGED <<sync_page, first_product_id, products_list,
                              tile_idx, sync_exc, sync_reqs>>
          ELSE IF tile.anchor = None
          THEN /\ sync_pc' = "crashed"
               /\ sync_exc' = "anchor"
               /\ first_product_id' = first
               /\ UNCHANGED <<sync_page, products_list, tile_idx, sync_reqs>>
          ELSE IF r.raises
          THEN /\ sync_pc' = "crashed"
               /\ sync_exc' = "detail_request"
               /\ first_product_id' = first
               /\ sync_reqs' = requests
               /\ UNCHANGED <<sync_page, products_list, tile_idx>>
          ELSE /\ continue
               /\ first_product_id' = first
               /\ products_list' = Append(products_list, product)
               /\ sync_reqs' = requests
               /\ UNCHANGED sync_exc
    /\ UNCHANGED <<product_tiles, served0>>
    /\ UNCHANGED async_vars
    /\ UNCHANGED main_vars
    /\ UNCHANGED server
    /\ UNCHANGED timed

SyncTile(r) == SyncPass(r, TRUE)

\* The __main__ block: save_products_to_csv(products_list) once
\* scrape_products has returned.
SyncSave ==
    /\ sync_pc = "done"
    /\ main_pc = "run"
    /\ csv_file' = Some(save_products_to_csv(products_list, "; "))
    /\ main_pc' = "saved"
    /\ UNCHANGED session
    /\ UNCHANGED sync_vars
    /\ UNCHANGED async_vars
    /\ UNCHANGED server
    /\ UNCHANGED timed

\* An exception that left scrape_products leaves the script: nothing
\* catches it.
SyncAbort ==
    /\ sync_pc = "crashed"
    /\ main_pc = "run"
    /\ main_pc' = "aborted"
    /\ UNCHANGED <<session, csv_file>>
    /\ UNCHANGED sync_vars
    /\ UNCHANGED async_vars
    /\ UNCHANGED server
    /\ UNCHANGED timed

NextSync ==
    \/ /\ sync_pc = "loop" /\ sync_page <= MaxSyncPage
       /\ \E r \in SyncPageResponses(sync_page) : SyncFetchPage(r)
    \/ sync_pc = "tiles" /\ \E r \in SyncDetailResponses : SyncTile(r)
    \/ SyncSave
    \/ SyncAbort

\* Either crawl, chosen at the start.
InitAll == Init \/ InitSync

NextAll == Next \/ NextSync

SpecAll == InitAll /\ [][NextAll]_vars

\* ---------------------------------------- runs with an unexpected exception
\* A statement of the loop body outside scrape_page's try block raises
\* (all_products.extend, the log call, asyncio.sleep): the exception leaves
\* the loop.
LoopRaises ==
    /\ pc = "sleep"
    /\ pc' = "raised"
    /\ UNCHANGED <<max_pages, page, all_products, tasks, first_done,
                   stopped, requested, page_results, page_outcomes>>
    /\ UNCHANGED sync_vars
    /\ UNCHANGED main_vars
    /\ UNCHANGED server
    /\ UNCHANGED timed

\* The exception leaves the async with block, which releases the session,
\* and scrape_products; main's except clause logs it and main ends.
RaiseToMain ==
    /\ pc = "raised"
    /\ main_pc = "run"
    /\ session' = ClientSessionExit(session)
    /\ main_pc' = "failed"
    /\ UNCHANGED csv_file
    /\ UNCHANGED async_vars
    /\ UNCHANGED sync_vars
    /\ UNCHANGED server
    /\ UNCHANGED timed

NextFault == NextAll \/ LoopRaises \/ RaiseToMain

SpecFault == InitAll /\ [][NextFault]_vars

\* ------------------------------------ the instrumented asynchronous crawl
\* The values a difference of two time.time() readings takes, in whole units.
Elapsed == 0..MaxElapsed

\* The words of a text, split at its whitespace (a text with single spaces
\* only is kept whole: joining its words with single spaces gives it back).
Words(s) ==
    IF s \in {TwoLineText, "Aqua, Glycerin"}
    THEN <<"Aqua,", "Glycerin">> ELSE <<s>>

\* ' '.join(ingredients.split())
JoinSplit(s) == Join(Words(s), " ")

TimedDetailFields(m) ==
    [ingredients |->
         IF m.ingredients_tag
         THEN JoinSplit(IF m.ingredients_content # None
                        THEN m.ingredients_content[1] ELSE NoIngredients)
         ELSE NoIngredients,
     photo_url |-> DetailFields(m).photo_url]

TimedExtractDetailsBody(r) ==
    IF r.raises
    THEN [raised |-> TRUE, ingredients |-> "", photo_url |-> ""]
    ELSE IF r.status # 200
    THEN [raised |-> FALSE, ingredients |-> LoadingError, photo_url |-> LoadingError]
    ELSE IF ~r.readable
    THEN [raised |-> TRUE, ingredients |-> "", photo_url |-> ""]
    ELSE [raised |-> FALSE,
          ingredients |-> TimedDetailFields(r.markup).ingredients,
          photo_url |-> TimedDetailFields(r.markup).photo_url]

timed_extract_product_details(r) == DetailsExcept(TimedExtractDetailsBody(r))

\* x / d as Python evaluates it: a ZeroDivisionError when d is 0.
TrueDiv(x, d) ==
    IF d = 0 THEN [raised |-> TRUE, v |-> 0]
    ELSE [raised |-> FALSE, v |-> x \div d]

NoDiv == [raised |-> FALSE, v |-> 0]

\* The statistics logged after a page: avg_product_time and
\* estimated_remaining (None stands for "unknown").
PageStatistics(mp, p, products, page_time) ==
    LET avg == IF products # <<>> THEN TrueDiv(page_time, Len(products))
               ELSE NoDiv
    IN [raised |-> avg.raised,
        avg_product_time |-> avg.v,
        estimated_remaining |->
            IF mp # None /\ mp[1] # 0
            THEN Some(avg.v * (mp[1] - p - 1) * 24) ELSE None]

\* The statistics logged after the loop: avg_page_time and avg_product_time.
FinalStatisticsUnguarded(total_page_time, total_time, p, all) ==
    LET a == TrueDiv(total_page_time, p)
        b == TrueDiv(total_time, Len(all))
    IN [raised |-> a.raised \/ b.raised,
        avg_page_time |-> a.v, avg_product_time |-> b.v]

FinalStatistics(total_page_time, total_time, p, all) ==
    LET a == IF p > 0 THEN TrueDiv(total_page_time, p) ELSE NoDiv
        b == IF all # <<>> THEN TrueDiv(total_time, Len(all)) ELSE NoDiv
    IN [raised |-> a.raised \/ b.raised,
        avg_page_time |-> a.v, avg_product_time |-> b.v]

TimedObs ==
    Obs(timed.pc, timed.page, timed.stopped, timed.requested, timed.returned,
        timed.all_products, timed.tasks)

PlainObs ==
    Obs(pc, page, stopped, requested, main_pc # "run", all_products, tasks)

\* The two crawls have consumed the same answers; the plain one is one
\* answer behind.
Agree == PlainObs = TimedObs

Behind == PlainObs # TimedObs /\ PlainObs = timed.obs_before

TimedInFlight ==
    (IF timed.pc = "page_get" THEN 1 ELSE 0)
    + Cardinality({ i \in 1..Len(timed.tasks) : timed.tasks[i].st = "inflight" })

TimedConnAvailable == TimedInFlight < ConnLimit

\* The instrumented scrape_products is called with the same max_pages.
TimedCall ==
    /\ pc = "start"
    /\ timed.pc = "off"
    /\ timed' = [timed EXCEPT !.pc = "start"]
    /\ UNCHANGED plain_vars

TimedOpenSession ==
    /\ timed.pc = "start"
    /\ timed' = [timed EXCEPT !.pc = "loop",
                              !.obs_before = TimedObs,
                              !.input = [NoInput EXCEPT !.kind = "open"]]
    /\ UNCHANGED plain_vars

TimedCapReached ==
    /\ timed.pc = "loop"
    /\ CapHit(max_pages, timed.page)
    /\ timed' = [timed EXCEPT !.pc = "done", !.stopped = "cap_reached",
                              !.obs_before = TimedObs,
                              !.input = [NoInput EXCEPT !.kind = "cap"]]
    /\ UNCHANGED plain_vars

TimedRequestPage ==
    /\ timed.pc = "loop"
    /\ ~CapHit(max_pages, timed.page)
    /\ TimedConnAvailable
    /\ timed' = [timed EXCEPT !.pc = "page_get",
                              !.requested = Append(@, timed.page),
                              !.obs_before = TimedObs,
                              !.input = [NoInput EXCEPT !.kind = "request"]]
    /\ UNCHANGED plain_vars

\* The page request resolves with r, e after start_time; without tiles
\* scrape_page returns ([], e) and the loop breaks after adding e to
\* total_page_time.
TimedPageResponse(r, e) ==
    /\ timed.pc = "page_get"
    /\ LET tiles == product_tiles_of(r)
       IN timed' =
            IF tiles = <<>>
            THEN [timed EXCEPT !.pc = "done", !.stopped = "no_more_products",
                               !.tasks = <<>>, !.first_done = 0,
                               !.total_page_time = @ + e,
                               !.obs_before = TimedObs,
                               !.input = [NoInput EXCEPT !.kind = "page",
                                                        !.page_r = r]]
            ELSE [timed EXCEPT !.pc = "gather",
                               !.tasks = [i \in 1..Len(tiles) |-> NewTask(tiles[i])],
                               !.first_done = 0,
                               !.obs_before = TimedObs,
                               !.input = [NoInput EXCEPT !.kind = "page",
                                                        !.page_r = r]]
    /\ UNCHANGED plain_vars

TimedStartTask(i) ==
    /\ timed.tasks[i].st = "pending"
    /\ LET f == ListingFields(timed.tasks[i].tile)
       IN IF f.out = "await"
          THEN /\ TimedConnAvailable
               /\ timed' = [timed EXCEPT
                              !.tasks[i].st = "inflight",
                              !.tasks[i].reqs = @ + 1,
                              !.obs_before = TimedObs,
                              !.input = [NoInput EXCEPT !.kind = "start", !.i = i]]
          ELSE timed' = [timed EXCEPT
                           !.tasks[i] =
                               ProductExcept([@ EXCEPT !.st = "done",
                                                       !.raised = (f.out = "raise")]),
                           !.first_done = IF @ = 0 THEN i ELSE @,
                           !.obs_before = TimedObs,
                           !.input = [NoInput EXCEPT !.kind = "start", !.i = i]]
    /\ UNCHANGED plain_vars

TimedDetailResponse(i, r) ==
    /\ timed.tasks[i].st = "inflight"
    /\ LET f == ListingFields(timed.tasks[i].tile)
           d == timed_extract_product_details(r)
           t == [timed.tasks[i] EXCEPT
                   !.st = "done",
                   !.outcome = [raises |-> r.raises, status |-> r.status,
                                readable |-> r.readable],
                   !.raised = d.raised,
                   !.res = IF d.raised THEN None
                           ELSE Some(Product(f.name, f.price,
                                             d.ingredients, d.photo_url))]
       IN timed' = [timed EXCEPT
                      !.tasks[i] = ProductExcept(t),
                      !.first_done = IF @ = 0 THEN i ELSE @,
                      !.obs_before = TimedObs,
                      !.input = [NoInput EXCEPT !.kind = "detail", !.i = i,
                                               !.detail_r = r]]
    /\ UNCHANGED plain_vars

\* gather resumes and scrape_page returns (valid_products, e); the loop
\* adds e to total_page_time, breaks on an empty result, or extends
\* all_products, computes and logs the statistics and moves on.
TimedGatherReturn(e) ==
    /\ timed.pc = "gather"
    /\ GatherDone(timed.tasks)
    /\ LET products == ScrapePageReturn(timed.tasks, timed.first_done)
           stats == PageStatistics(max_pages, timed.page, products, e)
       IN timed' =
            IF products = <<>>
            THEN [timed EXCEPT !.pc = "done", !.stopped = "no_more_products",
                               !.total_page_time = @ + e,
                               !.obs_before = TimedObs,
                               !.input = [NoInput EXCEPT !.kind = "gather"]]
            ELSE IF stats.raised
            THEN [timed EXCEPT !.pc = "raised",
                               !.all_products = Extend(@, products),
                               !.total_page_time = @ + e,
                               !.obs_before = TimedObs,
                               !.input = [NoInput EXCEPT !.kind = "gather"]]
            ELSE [timed EXCEPT !.pc = "sleep",
                               !.all_products = Extend(@, products),
                               !.page = @ + 1,
                               !.total_page_time = @ + e,
                               !.obs_before = TimedObs,
                               !.input = [NoInput EXCEPT !.kind = "gather"]]
    /\ UNCHANGED plain_vars

TimedSleep ==
    /\ timed.pc = "sleep"
    /\ timed' = [timed EXCEPT !.pc = "loop",
                              !.obs_before = TimedObs,
                              !.input = [NoInput EXCEPT !.kind = "sleep"]]
    /\ UNCHANGED plain_vars

\* After the loop: total_time is e, the final statistics are computed and
\* logged, and all_products is returned.
TimedReturn(e) ==
    /\ timed.pc = "done"
    /\ ~timed.returned
    /\ LET stats == FinalStatistics(timed.total_page_time, e, timed.page,
                                    timed.all_products)
       IN timed' =
            IF stats.raised
            THEN [timed EXCEPT !.pc = "raised",
                               !.obs_before = TimedObs,
                               !.input = [NoInput EXCEPT !.kind = "return"]]
            ELSE [timed EXCEPT !.returned = TRUE,
                               !.obs_before = TimedObs,
                               !.input = [NoInput EXCEPT !.kind = "return"]]
    /\ UNCHANGED plain_vars

\* A step of the instrumented crawl, taken when the plain one has caught up.
TimedStep ==
    \/ TimedCall
    \/ Agree /\ TimedOpenSession
    \/ Agree /\ TimedCapReached
    \/ Agree /\ TimedRequestPage
    \/ /\ Agree /\ timed.pc = "page_get"
       /\ \E r \in PageResponses(timed.page), e \in Elapsed : TimedPageResponse(r, e)
    \/ Agree /\ \E i \in 1..Len(timed.tasks) : TimedStartTask(i)
    \/ /\ Agree
       /\ \E i \in 1..Len(timed.tasks) :
             timed.tasks[i].st = "inflight"
             /\ \E r \in server.details : TimedDetailResponse(i, r)
    \/ Agree /\ \E e \in Elapsed : TimedGatherReturn(e)
    \/ Agree /\ TimedSleep
    \/ Agree /\ \E e \in Elapsed : TimedReturn(e)

\* The plain crawl takes the same step with the same answer.
PlainReplay ==
    \/ Behind /\ timed.input.kind = "open" /\ OpenSession
    \/ Behind /\ timed.input.kind = "cap" /\ CapReached
    \/ Behind /\ timed.input.kind = "request" /\ RequestPage
    \/ Behind /\ timed.input.kind = "page" /\ PageResponse(timed.input.page_r)
    \/ Behind /\ timed.input.kind = "start" /\ StartTask(timed.input.i)
    \/ /\ Behind /\ timed.input.kind = "detail"
       /\ DetailResponse(timed.input.i, timed.input.detail_r)
    \/ Behind /\ timed.input.kind = "gather" /\ GatherReturn
    \/ Behind /\ timed.input.kind = "sleep" /\ Sleep
    \/ Behind /\ timed.input.kind = "return" /\ Return

\* The sites the two asynchronous variants are compared on. Detail requests
\* raise, serve a whole page, or serve an ingredients text of two lines, the
\* text the variants render differently.
TimingDetails ==
    {r \in DetailResponses : r.raises}
    \cup {OkResponse(FullMarkup),
          OkResponse([FullMarkup EXCEPT !.ingredients_content = Some(TwoLineText)])}

\* One listing page of several tiles, whole or without the attribute.
TimingTileServer ==
    [last_page |-> 0, sizes |-> 1..MaxTiles, kinds |-> {"full", "absent"},
     details |-> TimingDetails, wraps |-> FALSE]

\* Several listing pages of one tile each, whole or without the attribute.
TimingPageServer ==
    [last_page |-> LastPage, sizes |-> {1}, kinds |-> {"full", "absent"},
     details |-> TimingDetails, wraps |-> FALSE]

InitTiming ==
    /\ server \in {TimingTileServer, TimingPageServer}
    /\ max_pages \in {None} \cup { Some(c) : c \in 0..MaxCap }
    /\ pc = "start"
    /\ page = 0
    /\ all_products = <<>>
    /\ tasks = <<>>
    /\ first_done = 0
    /\ stopped = ""
    /\ requested = <<>>
    /\ page_results = <<>>
    /\ sync_pc = "off"
    /\ sync_page = 0
    /\ first_product_id = None
    /\ products_list = <<>>
    /\ product_tiles = <<>>
    /\ tile_idx = 0
    /\ served0 = <<>>
    /\ page_outcomes = <<>>
    /\ sync_exc = ""
    /\ sync_reqs = <<>>
    /\ session = [acquired |-> 0, released |-> 0]
    /\ main_pc = "run"
    /\ csv_file = None
    /\ timed = TimedOff

NextTiming == TimedStep \/ PlainReplay

SpecTiming == InitTiming /\ [][NextTiming]_vars

\* ------------------- the asynchronous crawl of a site that wraps around
\* A site whose listing never ends: a page index past its last page serves
\* the catalogue again from page 0.
WrapServer ==
    [last_page |-> LastPage, sizes |-> {MaxTiles}, kinds |-> {"full"},
     details |-> {OkResponse(FullMarkup)}, wraps |-> TRUE]

WrapResponses(p) ==
    IF server.wraps /\ p > server.last_page
    THEN { [raises |-> FALSE, status |-> 200, readable |-> TRUE, tiles |-> t] :
             t \in UNION { TileLists(p % (server.last_page + 1), n) :
                              n \in server.sizes } }
    ELSE {}

InitWrap ==
    /\ server = WrapServer
    /\ max_pages \in {None} \cup { Some(c) : c \in 0..MaxCap }
    /\ pc = "start"
    /\ page = 0
    /\ all_products = <<>>
    /\ tasks = <<>>
    /\ first_done = 0
    /\ stopped = ""
    /\ requested = <<>>
    /\ page_results = <<>>
    /\ sync_pc = "off"
    /\ sync_page = 0
    /\ first_product_id = None
    /\ products_list = <<>>
    /\ product_tiles = <<>>
    /\ tile_idx = 0
    /\ served0 = <<>>
    /\ page_outcomes = <<>>
    /\ sync_exc = ""
    /\ sync_reqs = <<>>
    /\ session = [acquired |-> 0, released |-> 0]
    /\ main_pc = "run"
    /\ csv_file = None
    /\ timed = TimedOff

\* The crawl is followed up to page MaxWrapPage.
NextWrap ==
    \/ OpenSession
    \/ CapReached
    \/ page <= MaxWrapPage /\ RequestPage
    \/ /\ pc = "page_get"
       /\ \E r \in PageResponses(page) \cup WrapResponses(page) : PageResponse(r)
    \/ \E i \in 1..Len(tasks) : StartTask(i)
    \/ \E i \in 1..Len(tasks) :
          tasks[i].st = "inflight" /\ \E r \in server.details : DetailResponse(i, r)
    \/ GatherReturn
    \/ Sleep
    \/ Return
    \/ SaveCsv

SpecWrap == InitWrap /\ [][NextWrap]_vars /\ WF_vars(NextWrap)

\* ------------------------------- the asynchronous crawl of a large page
InitBig ==
    /\ server = BigPageServer
    /\ max_pages = Some(1)
    /\ pc = "start"
    /\ page = 0
    /\ all_products = <<>>
    /\ tasks = <<>>
    /\ first_done = 0
    /\ stopped = ""
    /\ requested = <<>>
    /\ page_results = <<>>
    /\ sync_pc = "off"
    /\ sync_page = 0
    /\ first_product_id = None
    /\ products_list = <<>>
    /\ product_tiles = <<>>
    /\ tile_idx = 0
    /\ served0 = <<>>
    /\ page_outcomes = <<>>
    /\ sync_exc = ""
    /\ sync_reqs = <<>>
    /\ session = [acquired |-> 0, released |-> 0]
    /\ main_pc = "run"
    /\ csv_file = None
    /\ timed = TimedOff

NextBig ==
    \/ OpenSession
    \/ Return
    \/ SaveCsv
    \/ CapReached
    \/ RequestPage
    \/ pc = "page_get" /\ \E r \in PageResponses(page) : PageResponse(r)
    \/ \E i \in 1..Len(tasks) :
          (\A j \in 1..(i - 1) : tasks[j].st # "pending") /\ StartTask(i)
    \/ \E i \in 1..Len(tasks) :
          tasks[i].st = "inflight" /\ \E r \in server.details : DetailResponse(i, r)
    \/ GatherReturn
    \/ Sleep

\* The event loop starts the tasks in the order gather was given them, runs
\* whatever is ready, and every request resolves (the session's total
\* timeout of 30 s sees to that).
SpecBig == InitBig /\ [][NextBig]_vars /\ WF_vars(NextBig)

\* ------------------- the synchronous crawl of a site that wraps around
\* The tile lists of n tiles of the given kinds page p can carry.
TileListsOf(kinds, p, n) ==
    { [i \in 1..n |-> TileOf(k[i], p, i)] : k \in [1..n -> kinds] }

\* What div.product-tile elements a listing page holds: tiles with the
\* data-product-gtm attribute and tiles without it.
SyncWrapKinds == {"full", "absent"}

SyncWrapPages(p) == UNION { TileListsOf(SyncWrapKinds, p, n) : n \in 1..MaxTiles }

\* The catalogues of a site of pages 0..last: for each page the tiles it
\* holds.  No page is empty.
RECURSIVE CataloguesTo(_)
CataloguesTo(last) ==
    IF last = 0
    THEN { [q \in {0} |-> t] : t \in SyncWrapPages(0) }
    ELSE { [q \in 0..last |-> IF q = last THEN t ELSE c[q]] :
             c \in CataloguesTo(last - 1), t \in SyncWrapPages(last) }

Catalogues == CataloguesTo(LastPage)

\* A site that serves its catalogue page by page, answers a page index past
\* the last page with page 0 again, and answers every request with status
\* 200.
SyncWrapServers ==
    { [last_page |-> LastPage, sizes |-> 1..MaxTiles, kinds |-> SyncWrapKinds,
       details |-> {OkResponse(FullMarkup)}, wraps |-> TRUE, pages |-> c] :
        c \in Catalogues }

\* What requests.get(current_url) returns for page p of that site.
SyncWrapResponse(p) ==
    [raises |-> FALSE, status |-> 200, readable |-> TRUE,
     tiles |-> server.pages[IF p <= server.last_page THEN p ELSE 0]]

InitSyncWrap ==
    /\ server \in SyncWrapServers
    /\ max_pages = None
    /\ pc = "off"
    /\ page = 0
    /\ all_products = <<>>
    /\ tasks = <<>>
    /\ first_done = 0
    /\ stopped = ""
    /\ requested = <<>>
    /\ page_results = <<>>
    /\ sync_pc = "loop"
    /\ sync_page = 0
    /\ first_product_id = None
    /\ products_list = <<>>
    /\ product_tiles = <<>>
    /\ tile_idx = 0
    /\ served0 = <<>>
    /\ page_outcomes = <<>>
    /\ sync_exc = ""
    /\ sync_reqs = <<>>
    /\ session = [acquired |-> 0, released |-> 0]
    /\ main_pc = "run"
    /\ csv_file = None
    /\ timed = TimedOff

\* The crawl past page MaxSyncPage: the same statements, with the page index
\* and the request history left as they are.
SyncFetchUncounted ==
    sync_page > MaxSyncPage /\ SyncFetch(SyncWrapResponse(sync_page), FALSE)

SyncTileUncounted(r) == sync_page > MaxSyncPage /\ SyncPass(r, FALSE)

NextSyncWrap ==
    \/ sync_pc = "loop" /\ SyncFetchPage(SyncWrapResponse(sync_page))
    \/ /\ sync_pc = "tiles" /\ sync_page <= MaxSyncPage
       /\ \E r \in SyncDetailResponses : SyncTile(r)
    \/ SyncFetchUncounted
    \/ /\ sync_pc = "tiles"
       /\ \E r \in SyncDetailResponses : SyncTileUncounted(r)
    \/ SyncSave

\* The script runs on while it can: every request resolves and every
\* statement that is reached is executed.
SpecSyncWrap == InitSyncWrap /\ [][NextSyncWrap]_vars /\ WF_vars(NextSyncWrap)

\* ------------------------------------------------------------- claims
RECURSIVE Concat(_)
Concat(ss) == IF ss = <<>> THEN <<>> ELSE Head(ss) \o Concat(Tail(ss))

\* A tile survives listing-field extraction: its attribute is a literal
\* mapping and it has a detail-link anchor.
Survives(tile) == tile.gtm = "mapping" /\ tile.anchor # None

Survivors(ts) == { i \in 1..Len(ts) : Survives(ts[i].tile) }

\* The tile's name and price as a Product shows them.
TileName(tile) == IF tile.item_name = None THEN NoName ELSE tile.item_name[1]
TilePrice(tile) == IF tile.price = None THEN NoPrice ELSE tile.price[1]

\* scrape_page has returned for the page whose tasks are in tasks.
PageReturned == pc # "gather" /\ tasks # <<>>

LastResult == page_results[Len(page_results)]

\* C1: the request for page k+1 is never issued while a detail fetch of page
\* k is unresolved: pages are requested in the order 0, 1, 2, ..., and
\* whenever scrape_products is anywhere but awaiting the gather (a page
\* request in flight included) every task has finished and every earlier
\* page's result has been returned.
C1_PagesStrictlySequential ==
    /\ \A j \in 1..Len(requested) : requested[j] = j - 1
    /\ pc # "gather" => \A i \in 1..Len(tasks) : tasks[i].st = "done"
    /\ pc = "page_get" => Len(page_results) = Len(requested) - 1
    /\ pc # "page_get" /\ pc # "gather" => Len(page_results) = Len(requested)

C1_Witness ==
    /\ pc = "page_get"
    /\ page = 1
    /\ Len(tasks) = 2
    /\ \A i \in 1..2 : tasks[i].reqs = 1 /\ tasks[i].st = "done"

\* C2: the Products scrape_page returns are in tile document order, whichever
\* detail fetch resolved first: the k-th Product of the page result is the
\* result of the k-th tile that yielded one, and the page result is the tail
\* of the accumulated result set.
C2_DocumentOrder ==
    (PageReturned /\ \A i \in 1..Len(tasks) : tasks[i].st = "done") =>
        LET yielded == { i \in 1..Len(tasks) : tasks[i].res # None }
            rank(i) == Cardinality({ j \in yielded : j <= i })
            n == Len(LastResult)
        IN /\ n = Cardinality(yielded)
           /\ \A i \in yielded : LastResult[rank(i)] = tasks[i].res[1]
           /\ n > 0 =>
                /\ Len(all_products) >= n
                /\ SubSeq(all_products, Len(all_products) - n + 1,
                          Len(all_products)) = LastResult

C2_Witness ==
    /\ pc = "sleep"
    /\ Len(tasks) = 2
    /\ first_done = 2
    /\ Len(LastResult) = 2
    /\ LastResult[1].name = ItemName(page - 1, 1)
    /\ LastResult[2].name = ItemName(page - 1, 2)

C7_SentinelPairs ==
    \A p \in { all_products[j] : j \in 1..Len(all_products) }
           \cup { products_list[j] : j \in 1..Len(products_list) } :
        /\ p.ingredients = LoadingError <=> p.photo_url = LoadingError
        /\ p.ingredients = ErrorLoading <=> p.photo_url = ErrorLoading

C7_Witness ==
    /\ Len(all_products) = 2
    /\ all_products[1].ingredients = ErrorLoading
    /\ all_products[1].photo_url = ErrorLoading
    /\ all_products[2].ingredients = NoIngredients
    /\ all_products[2].photo_url = "https://img/1.jpg 1x"

\* C4: with max_pages = c no page of index >= c is ever requested, and a
\* crawl that gets as far as page c stops there with reason cap_reached,
\* having requested exactly pages 0..c-1 and returning all they yielded.
C4_CapBeforeFetch ==
    max_pages # None =>
        LET c == max_pages[1]
        IN /\ \A j \in 1..Len(requested) : requested[j] < c
           /\ page <= c
           /\ (pc = "done" /\ page >= c) => stopped = "cap_reached"
           /\ stopped = "cap_reached" =>
                /\ pc = "done"
                /\ page = c
                /\ requested = [j \in 1..c |-> j - 1]
                /\ Len(page_results) = c
                /\ all_products = Concat(page_results)

C4_Witness ==
    /\ max_pages = Some(1)
    /\ stopped = "cap_reached"
    /\ requested = <<0>>
    /\ Len(all_products) = 2

\* C5: a page that returns no Product ends the crawl: it is the last page
\* requested, every page before it returned Products, and the result set is
\* the concatenation, in order, of the earlier pages' results.
C5_StopOnEmptyPage ==
    /\ \A j \in 1..Len(page_results) :
          page_results[j] = <<>> =>
            /\ j = Len(page_results)
            /\ Len(requested) = j
            /\ pc = "done"
            /\ stopped = "no_more_products"
            /\ \A h \in 1..(j - 1) : page_results[h] # <<>>
            /\ all_products = Concat(SubSeq(page_results, 1, j - 1))
    /\ stopped = "no_more_products" =>
          /\ page_results # <<>>
          /\ LastResult = <<>>

C5_Witness ==
    /\ max_pages = None
    /\ stopped = "no_more_products"
    /\ Len(page_results) = 3
    /\ Len(page_results[1]) = 2
    /\ Len(page_results[2]) = 2
    /\ Len(all_products) = 4

\* C6: a successfully fetched page with a non-empty tile list never stops
\* the crawl: the crawl stops for no_more_products only on a failed page
\* fetch or an empty tile list (then the page has no tasks).
C6_DroppedTilesNeverStop ==
    stopped = "no_more_products" => tasks = <<>>

\* C8: a detail request that resolves with a status other than 200 gives the
\* Product "Loading error" in both detail fields, one that raises (the
\* request, or reading its body) gives "Error loading" in both, and either
\* way the Product is created with the tile's name and price.
C8_DetailOutcomeSentinels ==
    \A i \in 1..Len(tasks) :
        (tasks[i].st = "done" /\ tasks[i].reqs > 0) =>
            LET o == tasks[i].outcome
                failed == o.raises \/ o.status # 200 \/ ~o.readable
                sentinel == IF ~o.raises /\ o.status # 200
                            THEN LoadingError ELSE ErrorLoading
            IN failed =>
                 tasks[i].res =
                   <<[name |-> TileName(tasks[i].tile),
                      price |-> TilePrice(tasks[i].tile),
                      ingredients |-> sentinel, photo_url |-> sentinel]>>

C8_Witness ==
    /\ Len(tasks) = 2
    /\ tasks[1].st = "done" /\ tasks[1].outcome.status = 404
    /\ tasks[1].res # None /\ tasks[1].res[1].ingredients = LoadingError
    /\ tasks[2].st = "done" /\ tasks[2].outcome.raises
    /\ tasks[2].res # None /\ tasks[2].res[1].photo_url = ErrorLoading

\* C9: a failing detail fetch never fails the page: one detail request is
\* issued per surviving tile and none for a dropped one, and the page result
\* holds one Product per surviving tile, each with its own tile's name and
\* price, whatever the outcomes of the detail fetches.
C9_FailingDetailKeepsPage ==
    /\ \A i \in 1..Len(tasks) :
          tasks[i].reqs = IF Survives(tasks[i].tile) /\ tasks[i].st # "pending"
                          THEN 1 ELSE 0
    /\ PageReturned =>
          LET surv == Survivors(tasks)
              rank(i) == Cardinality({ j \in surv : j <= i })
          IN /\ Len(LastResult) = Cardinality(surv)
             /\ \A i \in surv :
                   /\ LastResult[rank(i)].name = TileName(tasks[i].tile)
                   /\ LastResult[rank(i)].price = TilePrice(tasks[i].tile)

C9_Witness ==
    /\ pc = "sleep"
    /\ Len(tasks) = 2
    /\ tasks[1].outcome.raises
    /\ tasks[2].outcome.status = 200 /\ tasks[2].outcome.readable
    /\ Len(LastResult) = 2
    /\ LastResult[1].ingredients = ErrorLoading
    /\ LastResult[2].ingredients = "Aqua, Glycerin"

\* C10: a tile without the structured-data attribute, with an attribute that
\* is no literal mapping, or without a detail-link anchor yields no Product
\* and no request, no task ever ends by raising, and the page result is still
\* the Products of the other tiles, in order.
C10_DroppedTileSkippedAlone ==
    /\ \A i \in 1..Len(tasks) :
          /\ ~tasks[i].raised
          /\ (~Survives(tasks[i].tile) /\ tasks[i].st = "done") =>
                tasks[i].res = None /\ tasks[i].reqs = 0
    /\ PageReturned =>
          LET surv == Survivors(tasks)
              rank(i) == Cardinality({ j \in surv : j <= i })
          IN /\ Len(LastResult) = Cardinality(surv)
             /\ \A i \in surv : <<LastResult[rank(i)]>> = tasks[i].res

C10_Witness ==
    /\ pc = "sleep"
    /\ Len(tasks) = 2
    /\ tasks[1].tile.gtm = "mapping" /\ tasks[1].tile.anchor = None
    /\ Survives(tasks[2].tile)
    /\ Len(LastResult) = 1
    /\ LastResult[1].name = ItemName(page - 1, 2)

\* C11: a page request that raises or resolves with a status other than 200
\* makes scrape_page return [] and ends the crawl: it is the last page
\* requested, and the result set is still exactly what the earlier pages
\* yielded, in order.
C11_FailedPageFetchStops ==
    \A j \in 1..Len(page_outcomes) :
        (page_outcomes[j].raises \/ page_outcomes[j].status # 200) =>
            /\ j = Len(page_outcomes)
            /\ j = Len(requested)
            /\ Len(page_results) = j
            /\ page_results[j] = <<>>
            /\ tasks = <<>>
            /\ pc = "done"
            /\ stopped = "no_more_products"
            /\ \A h \in 1..(j - 1) : page_results[h] # <<>>
            /\ all_products = Concat(SubSeq(page_results, 1, j - 1))

C11_Witness ==
    /\ main_pc = "returned"
    /\ Len(page_outcomes) = 2
    /\ page_outcomes[1].status = 200
    /\ page_outcomes[2].raises
    /\ Len(all_products) = 2
    /\ all_products[1].name = ItemName(0, 1)
    /\ all_products[2].name = ItemName(0, 2)

\* C12: in every variant a transport exception stays inside its fetch unit:
\* no task of the asynchronous crawl ends by raising and no exception leaves
\* its loop, and in the synchronous crawl no exception of a page request or
\* of a detail request leaves scrape_products.
C12_NoFailureCrossesFetchUnit ==
    /\ pc # "raised"
    /\ \A i \in 1..Len(tasks) : ~tasks[i].raised
    /\ sync_exc \notin {"page_request", "detail_request"}

\* C13: a run that an exception ended after Products had been accumulated
\* has written them to the output file.
C13_PartialResultsWritten ==
    (main_pc \in {"failed", "aborted"}
       /\ (all_products # <<>> \/ products_list # <<>>)) =>
        csv_file # None

\* The tile the for loop of the synchronous crawl is at carries the tracked
\* first identifier.
AtRepeatedFirstItem ==
    /\ sync_pc = "tiles"
    /\ product_tiles[tile_idx].gtm = "mapping"
    /\ first_product_id # None
    /\ product_tiles[tile_idx].item_id = first_product_id

\* C14: the synchronous crawl tracks the identifier of the first catalog item
\* it met (set once, never changed), and at a later tile that carries it
\* scrape_products returns at once: no request is issued for that tile or
\* after it, and the list returned is the one built before that tile.
C14_ReturnsOnRepeatedFirstItem ==
    /\ [][/\ AtRepeatedFirstItem =>
               /\ sync_pc' = "done"
               /\ products_list' = products_list
               /\ sync_reqs' = sync_reqs
          /\ sync_pc = "done" =>
               /\ sync_pc' = "done"
               /\ products_list' = products_list
               /\ sync_reqs' = sync_reqs
          /\ first_product_id' # first_product_id =>
               /\ first_product_id = None
               /\ sync_pc = "tiles"
               /\ first_product_id' = product_tiles[tile_idx].item_id]_vars
    /\ [](products_list # <<>> /\ products_list[1].name # NoName =>
             \E p \in 0..LastPage, i \in 1..MaxTiles :
                 /\ products_list[1].name = ItemName(p, i)
                 /\ first_product_id = Some(ItemId(p, i)))

C14_Witness ==
    /\ sync_pc = "done"
    /\ main_pc = "saved"
    /\ sync_page = 2
    /\ Len(product_tiles) = 2
    /\ tile_idx = 1
    /\ product_tiles[1].item_id = first_product_id
    /\ first_product_id = Some(ItemId(0, 1))
    /\ Len(products_list) = 4
    /\ products_list[4].name = ItemName(1, 2)
    /\ Len(sync_reqs) = 7

\* C15: all_products changes only when scrape_products takes the result of
\* the page whose scrape_page has just returned: every task of the page has
\* finished and no request is in flight, the page's whole non-empty result is
\* appended, and the entries already there stay as they are, in place.
C15_ResultSetAppendOnly ==
    [][all_products' # all_products =>
          /\ pc = "gather" /\ pc' = "sleep"
          /\ InFlight = 0
          /\ \A i \in 1..Len(tasks) : tasks[i].st = "done"
          /\ tasks' = tasks
          /\ Len(page_results') = Len(page_results) + 1
          /\ page_results'[Len(page_results')] # <<>>
          /\ all_products' = all_products \o page_results'[Len(page_results')]
          /\ SubSeq(all_products', 1, Len(all_products)) = all_products]_vars

C15_Witness ==
    /\ pc = "sleep"
    /\ page = 2
    /\ Len(page_results) = 2
    /\ Len(all_products) = 4
    /\ all_products[1].name = ItemName(0, 1)
    /\ all_products[4].name = ItemName(1, 2)

\* A page request or a detail request is issued in this step.
RequestIssued ==
    \/ requested' # requested
    \/ /\ Len(tasks') = Len(tasks)
       /\ \E i \in 1..Len(tasks) : tasks'[i].reqs > tasks[i].reqs

\* C16: in an asynchronous run the session is acquired once, before any
\* request, and released exactly once when scrape_products ends, by return
\* or by an exception; requests are issued only between the two, and none
\* is in flight at the release.
C16_SessionScoped ==
    /\ [](pc # "off" =>
            /\ session.acquired <= 1
            /\ session.released <= session.acquired
            /\ session.acquired = 0 <=> pc = "start"
            /\ pc = "start" => requested = <<>> /\ tasks = <<>>
            /\ session.released = 1 <=> main_pc \in {"returned", "saved", "failed"}
            /\ session.released = 1 => InFlight = 0 /\ pc \in {"done", "raised"})
    /\ [][/\ RequestIssued => session.acquired = 1 /\ session.released = 0
          /\ session.released' # session.released =>
                /\ session.released' = session.released + 1
                /\ InFlight = 0
                /\ pc \in {"done", "raised"}]_vars

C16_Witness ==
    /\ pc = "raised"
    /\ main_pc = "failed"
    /\ session = [acquired |-> 1, released |-> 1]
    /\ Len(requested) = 2
    /\ Len(all_products) = 4

\* The result set the run hands to save_products_to_csv, and the delimiter
\* of its variant.
SavedProducts == IF sync_pc = "off" THEN all_products ELSE products_list

Delimiter == IF sync_pc = "off" THEN ";" ELSE "; "

\* C18: the file written has the header as its first line and then exactly
\* one line per Product of the result set, in order, each the four fields
\* joined by the delimiter: n Products give n + 1 lines.
C18_CsvOneLinePerProduct ==
    csv_file # None =>
        LET lines == csv_file[1]
            n == Len(SavedProducts)
        IN /\ Len(lines) = n + 1
           /\ lines[1] = Header(Delimiter)
           /\ \A k \in 1..n :
                 lines[k + 1] =
                     SavedProducts[k].name \o Delimiter
                     \o SavedProducts[k].price \o Delimiter
                     \o SavedProducts[k].ingredients \o Delimiter
                     \o SavedProducts[k].photo_url

\* C19: with a page cap c, and every request resolving, scrape_products
\* returns in the end, and it never issues more than c page requests,
\* whether or not the server ever serves an empty page.
C19_CappedCrawlTerminates ==
    /\ [](max_pages # None => Len(requested) <= max_pages[1])
    /\ (max_pages # None) => <>(pc = "done" /\ main_pc = "returned")

C19_Witness ==
    /\ max_pages = Some(MaxCap)
    /\ stopped = "cap_reached"
    /\ main_pc = "returned"
    /\ Len(requested) = MaxCap
    /\ \A j \in 1..Len(page_results) : page_results[j] # <<>>

\* The number of listing pages of the site.
CataloguePages == server.last_page + 1

\* C20: without a page cap the asynchronous crawl has left its loop exactly
\* when the page fetched last yielded no Product; at the top of the loop it
\* can only request the next page; so against a site that wraps around it
\* either meets a page that yields nothing or goes on past any page index,
\* and each page past the catalogue's end appends the Products of the page
\* it wraps to once more.
C20_UncappedStopsOnlyOnEmptyPage ==
    /\ [](max_pages = None =>
            /\ stopped # "cap_reached"
            /\ pc = "done" <=> (page_results # <<>> /\ LastResult = <<>>)
            /\ \A j \in 1..Len(page_results) :
                  (j > CataloguePages /\ page_results[j] # <<>>) =>
                      page_results[j] = page_results[j - CataloguePages])
    /\ [][(max_pages = None /\ pc = "loop" /\ page <= MaxWrapPage) =>
             (pc' = "page_get" /\ requested' = Append(requested, page))]_vars
    /\ (max_pages = None) => <>(pc = "done" \/ page > MaxWrapPage)

C20_Witness ==
    /\ max_pages = None
    /\ pc = "loop"
    /\ page = MaxWrapPage + 1
    /\ Len(requested) = MaxWrapPage + 1
    /\ Len(all_products) = (MaxWrapPage + 1) * MaxTiles
    /\ all_products[1 + CataloguePages * MaxTiles] = all_products[1]

\* A step of the plain crawl itself, whatever its answer.
PlainCrawlStep ==
    \/ OpenSession
    \/ CapReached
    \/ RequestPage
    \/ pc = "page_get" /\ \E r \in PageResponses(page) : PageResponse(r)
    \/ \E i \in 1..Len(tasks) : StartTask(i)
    \/ \E i \in 1..Len(tasks) :
          tasks[i].st = "inflight" /\ \E r \in server.details : DetailResponse(i, r)
    \/ GatherReturn
    \/ Sleep
    \/ Return

\* C17: run with the same max_pages against the same answers, and whatever
\* the elapsed times measured, the instrumented crawl and the plain one show
\* the same control: the same page requests and detail requests, the same
\* stop at the same page for the same reason, the same number of Products in
\* the same order with the same name, price and photo URL.  Neither can take
\* a step the other cannot, and the statistics never raise.
C17_TimingControlEquivalent ==
    timed.pc # "off" =>
        /\ Agree \/ Behind
        /\ timed.pc # "raised"
        /\ Behind => ENABLED PlainReplay
        /\ Agree => (ENABLED PlainCrawlStep <=> ENABLED TimedStep)

C17_Witness ==
    /\ Agree
    /\ timed.returned
    /\ timed.stopped = "no_more_products"
    /\ timed.total_page_time = MaxElapsed + MaxElapsed
    /\ Len(all_products) = 2
    /\ Len(timed.requested) = 2
    /\ all_products[2].ingredients = "Aqua,  Glycerin"
    /\ timed.all_products[2].ingredients = "Aqua, Glycerin"

\* The tiles of the pages 0..last_page of the site, in page order, and those
\* of them that carry structured data.
RealPageTiles ==
    Concat([k \in 1..(server.last_page + 1) |-> server.pages[k - 1]])

HasStructuredData(tile) == tile.gtm = "mapping"

DataTiles(ts) == SelectSeq(ts, HasStructuredData)

\* The site has a tile with structured data (its first such tile then has a
\* non-empty item identifier: every tile of SyncWrapKinds that has the
\* attribute has one).
HasFirstItem == DataTiles(RealPageTiles) # <<>>

\* Page 0 of the site has a tile with structured data.
PageZeroHasItem == DataTiles(server.pages[0]) # <<>>

\* The crawl returns.
SyncWrapTerminates == HasFirstItem ~> (sync_pc = "done")

\* The crawl returns when page 0 carries the first item.
SyncWrapTerminatesFromPageZero == PageZeroHasItem ~> (sync_pc = "done")

\* The list returned has one Product per tile with structured data of the
\* pages 0..last_page, in page order, and nothing else.
SyncWrapReturnsRealPagesOnce ==
    sync_pc = "done" =>
        LET expected == DataTiles(RealPageTiles)
        IN /\ Len(products_list) = Len(expected)
           /\ \A k \in 1..Len(expected) :
                 /\ products_list[k].name = TileName(expected[k])
                 /\ products_list[k].price = TilePrice(expected[k])

\* The tracked first identifier, once set, is never assigned again.
FirstIdentifierKept ==
    [][first_product_id # None => first_product_id' = first_product_id]_vars

\* C21: against a site that wraps its pagination (any page index past the
\* last page serves page 0 again), whose first tile with structured data has
\* an item identifier and whose every answer has status 200, the synchronous
\* crawl eventually returns; the list it returns has one Product for each
\* tile with structured data of the pages 0..last_page, once each, and none
\* of the wrapped page; the tracked first identifier never changes once set.
C21_SyncWrapCrawlReturnsCatalogueOnce ==
    /\ SyncWrapTerminates
    /\ []SyncWrapReturnsRealPagesOnce
    /\ FirstIdentifierKept

\* The crawl is at the top of its loop past the first wrapped page: that
\* page went by without the tracked identifier.
PastWrappedPage ==
    /\ sync_pc = "loop"
    /\ sync_page > server.last_page + 1
    /\ first_product_id # None
    /\ HasFirstItem /\ ~PageZeroHasItem

\* On a site whose page 0 has no tile with structured data, a step of the
\* crawl at a wrapped page neither returns nor changes the list or the
\* tracked identifier: the next wrapped page is met in the same state, with
\* page one higher.
WrappedPageChangesNothing ==
    [][sync_page > server.last_page /\ ~PageZeroHasItem =>
           /\ sync_pc' \in {"loop", "tiles"}
           /\ sync_page' \in {sync_page, sync_page + 1}
           /\ products_list' = products_list
           /\ first_product_id' = first_product_id]_vars

\* The crawl has returned from the wrapped page of a site whose page 0
\* carries the first item.
ReturnedAtWrappedPage ==
    /\ sync_pc = "done"
    /\ sync_page = server.last_page + 1
    /\ PageZeroHasItem
    /\ Len(products_list) = Len(DataTiles(RealPageTiles))
    /\ Len(products_list) > 1

====
